---------------------------- MODULE Spec2Model ----------------------------
(***************************************************************************)
(* Model of IsseW/combine: bodies assembled from parts (body.rs), the      *)
(* Stats aggregation (update_body_system), the skill selection slot        *)
(* (ui.rs UseSkill / button_system) and the animation state machine        *)
(* (main.rs use_skill_system / do_animation).                              *)
(*                                                                         *)
(* f32 quantities are fixed-point integers:                                *)
(*   time and progress   in 1/TimeScale   (Animation.progress, dt)         *)
(*   lengths, part stats in 1/Milli       (translation.x, width, speed)    *)
(*   facing (scale.x)    in 1/DirScale    (one unit is the 0.0001 epsilon) *)
(*   pose angles         in 1/Milli radians                                *)
(* Products are rounded to the nearest unit (RoundDiv).                    *)
(***************************************************************************)
EXTENDS Integers, Sequences, FiniteSets, TLC

VARIABLES
    body,             \* entity -> Body component
    body_changed,     \* Changed<Body> still to be seen by update_body_system
    stats,            \* entity -> Stats component
    transform,        \* entity -> [x, scale_x] (Transform.translation.x, .scale.x)
    limbs,            \* pose angle of the player's limb children: [legs, arms]
    use_skill,        \* UseSkill resource: <<>> is None, <<k>> is Some(k)
    maybe_animation,  \* Local<Option<Animation>>: <<>> or <<[skill, progress]>>
    panicked,         \* the process aborted (unwrap / index / todo!())
    h                 \* history of the last system run (observation only)

vars == <<body, body_changed, stats, transform, limbs, use_skill,
          maybe_animation, panicked, h>>

-----------------------------------------------------------------------------
(* Fixed-point scales and bounds *)

\* units per second and per 1.0 of progress
TimeScale == 20
\* units per 1.0 of length, weight, health, energy, speed and per radian
Milli == 1000
\* units per 1.0 of facing; 0.0001 is one unit
DirScale == 10000

\* number of selections the command layer accepts in a behaviour
MaxRuns == 1
\* number of buttons whose Interaction changed to Clicked in one frame
MaxClicks == 1

\* elapsed times Time::delta_seconds() returns, in 1/TimeScale seconds; it is
\* zero only in the first frame of the app, before any button exists
DTs == {9, 10, 25}

Abs(x) == IF x < 0 THEN -x ELSE x

\* a / b rounded to the nearest integer, halves away from zero (b > 0)
RoundDiv(a, b) == IF a >= 0 THEN (2 * a + b) \div (2 * b)
                  ELSE -((2 * (-a) + b) \div (2 * b))

Min(a, b) == IF a < b THEN a ELSE b
Max(a, b) == IF a > b THEN a ELSE b

\* f32::signum: 1.0 for +0.0 and every positive number, -1.0 for negatives
Signum(x) == IF x < 0 THEN -1 ELSE 1

\* f32::INFINITY, above every speed a leg can have
F32_INFINITY == 1000000000

None == <<>>
Some(x) == <<x>>
IsSome(o) == Len(o) = 1
Unwrap(o) == o[1]

-----------------------------------------------------------------------------
(* body.rs: materials, skills, parts *)

Materials == {"Wood", "Stone", "Plastic", "Bronze", "Aluminum", "Steel", "Carbon", "Rust"}

\* Material::ALL, the materials Material::choose draws from
MaterialALL == <<"Wood", "Stone", "Plastic", "Bronze", "Aluminum", "Steel", "Carbon">>

base_hp(m) ==
    CASE m = "Wood" -> 10 [] m = "Stone" -> 13 [] m = "Plastic" -> 5
      [] m = "Bronze" -> 24 [] m = "Aluminum" -> 22 [] m = "Steel" -> 30
      [] m = "Carbon" -> 30 [] m = "Rust" -> 10

base_energy(m) ==
    CASE m = "Wood" -> -10 [] m = "Stone" -> -15 [] m = "Plastic" -> 0
      [] m = "Bronze" -> 10 [] m = "Aluminum" -> 2 [] m = "Steel" -> 2
      [] m = "Carbon" -> -1 [] m = "Rust" -> 0

density(m) ==
    CASE m = "Wood" -> 100 [] m = "Stone" -> 350 [] m = "Plastic" -> 30
      [] m = "Bronze" -> 100 [] m = "Aluminum" -> 60 [] m = "Steel" -> 70
      [] m = "Carbon" -> 25 [] m = "Rust" -> 70

\* Limb::Arm(i) / Limb::Leg(i); NoLimb fills the field of skills without ability
Arm(i) == <<"Arm", i>>
Leg(i) == <<"Leg", i>>
NoLimb == <<"None", 0>>

\* Skill: the ability's payload (meta) and limb are kept; time, cooldown,
\* energy_cost and name are read by no code
PlainSkill(k) == [kind |-> k, limb |-> NoLimb, meta |-> 0]
WalkBackward == PlainSkill("WalkBackward")
WalkForward == PlainSkill("WalkForward")
TurnAround == PlainSkill("TurnAround")
BasicMelee(limb, meta) == [kind |-> "BasicMelee", limb |-> limb, meta |-> meta]
BasicRanged(limb, meta) == [kind |-> "BasicRanged", limb |-> limb, meta |-> meta]
Scan(limb, meta) == [kind |-> "Scan", limb |-> limb, meta |-> meta]

AbilityKinds == {"BasicMelee", "BasicRanged", "Scan"}

\* Skill::order
order(skill) ==
    CASE skill.kind = "WalkBackward" -> 0
      [] skill.kind = "WalkForward" -> 1
      [] skill.kind = "TurnAround" -> 2
      [] skill.kind = "BasicMelee" -> 3
      [] skill.kind = "BasicRanged" -> 3
      [] skill.kind = "Scan" -> 4

\* a bug: abilities are compared field by field, as a derived PartialEq does
AbilityEqByFields(a, b) == a.limb = b.limb /\ a.meta = b.meta

\* impl PartialEq for Ability: never equal
AbilityEq(a, b) == FALSE

\* #[derive(PartialEq)] for Skill: same variant and equal payloads
SkillEq(a, b) ==
    /\ a.kind = b.kind
    /\ (a.kind \in AbilityKinds => AbilityEq(a, b))

PartStats(skills, material, weight, health, energy, size) ==
    [skills |-> skills, material |-> material, weight |-> weight,
     health |-> health, energy |-> energy, size |-> size]

\* Body::default
DefaultArm(index) ==
    [stats |-> PartStats(<<BasicMelee(Arm(index), 5 * Milli)>>, "Rust",
                         16 * Milli, 1 * Milli, -2 * Milli, 1 * Milli)]

DefaultLeg ==
    [stats |-> PartStats(<<WalkForward, WalkBackward>>, "Rust",
                         26 * Milli, 5 * Milli, -2 * Milli, 1 * Milli),
     max_speed |-> 5 * Milli, jump_force |-> 15 * Milli]

DefaultBody ==
    [torso |-> [stats |-> PartStats(<<>>, "Rust", 50 * Milli, 10 * Milli,
                                    -12 * Milli, 1 * Milli),
                arm_slots |-> 2, leg_slots |-> 2],
     head |-> [stats |-> PartStats(<<>>, "Rust", 12 * Milli, 2 * Milli,
                                   -4 * Milli, 1 * Milli),
               refresh_rate |-> 1 * Milli, close_vision |-> 1 * Milli,
               far_vision |-> 1 * Milli],
     arms |-> <<DefaultArm(0), DefaultArm(1)>>,
     legs |-> <<DefaultLeg, DefaultLeg>>]

-----------------------------------------------------------------------------
(* body.rs: the procedural generator.  A draw of the random source is a    *)
(* unit fraction u in [0, Milli]; gen_range maps it into the asked range.  *)

\* rng.gen_range(lo..=hi) for f32, from the unit draw u
GenRange(lo, hi, u) == lo + RoundDiv(u * (hi - lo), Milli)

\* rng.gen_range(lo..=hi) for integers, from the raw draw n
GenRangeInt(lo, hi, n) == lo + (n % (hi - lo + 1))

\* f32::sqrt, f32::powf(0.3) and f32::powf(0.2), tabulated at the values the
\* sampled draws produce (arguments and results in 1/Milli)
Sqrt(x) ==
    CASE x = 500 -> 707 [] x = 1250 -> 1118 [] x = 2000 -> 1414
      [] x = 100000 -> 10000 [] x = 550000 -> 23452 [] x = 1000000 -> 31623

Pow03(x) == CASE x = 200 -> 617 [] x = 2600 -> 1332 [] x = 5000 -> 1621

Pow02(x) == CASE x = 200 -> 725 [] x = 2600 -> 1211 [] x = 5000 -> 1380

\* f32::powi(2)
Sq(x) == RoundDiv(x * x, Milli)

\* randomize_part; d holds the draws it makes (the colour is presentation)
randomize_part(d, skills, density_range, hp_mul, energy_mul) ==
    LET size == GenRange(500, 2000, d.size_u)
        material == MaterialALL[d.mat]
        dens == RoundDiv(density(material)
                           * GenRange(density_range[1], density_range[2], d.dens_u), 1)
        weight == RoundDiv(size * dens, Milli)
        health == RoundDiv(RoundDiv(base_hp(material) * Pow03(GenRange(200, 5000, d.hp_u))
                                      * Sqrt(size), Milli) * hp_mul, Milli)
        energy == RoundDiv(RoundDiv(base_energy(material) * Pow03(GenRange(200, 5000, d.en_u))
                                      * Sqrt(size), Milli) * energy_mul, Milli)
    IN PartStats(skills, material, weight, health, energy, size)

\* random_head
random_head(d) ==
    [stats |-> randomize_part(d.part, <<>>, <<600, 1000>>, 100, 300),
     refresh_rate |-> Sq(GenRange(100, 1000, d.refresh_u)),
     close_vision |-> Sq(GenRange(100, 1000, d.close_u)),
     far_vision |-> Sq(GenRange(100, 1000, d.far_u))]

\* a bug: the ability names the arm after this one
random_arm_names_next(d, i) ==
    [stats |-> randomize_part(d.part,
                   <<BasicMelee(Arm(i + 1), Sqrt(GenRange(100000, 1000000, d.meta_u)))>>,
                   <<600, 1000>>, 100, 300)]

\* random_arm
random_arm(d, i) ==
    [stats |-> randomize_part(d.part,
                   <<BasicMelee(Arm(i), Sqrt(GenRange(100000, 1000000, d.meta_u)))>>,
                   <<600, 1000>>, 100, 300)]

\* random_leg
random_leg(d) ==
    [stats |-> randomize_part(d.part,
                   <<WalkForward, TurnAround>>
                     \o (IF d.walk_backward THEN <<WalkBackward>> ELSE <<>>),
                   <<600, 1000>>, 300, 700),
     max_speed |-> RoundDiv(Pow02(GenRange(200, 5000, d.speed_u))
                              * GenRange(5000, 15000, d.speed_v), Milli),
     jump_force |-> RoundDiv(Pow02(GenRange(200, 5000, d.jump_u))
                               * GenRange(20000, 25000, d.jump_v), Milli)]

\* random_torso
random_torso(d) ==
    [stats |-> randomize_part(d.part, <<>>, <<800, 1200>>, 1000, 1000),
     arm_slots |-> 2, leg_slots |-> 2]

\* (arm_slots as f32 * 0.2).ceil() as usize
MinArms(arm_slots) == (arm_slots * 2 + 9) \div 10

\* a bug: the arm count is drawn from 0..=arm_slots
NumArmsFromZero(torso, n) == GenRangeInt(0, torso.arm_slots, n)

\* the arm count random_body draws
NumArms(torso, n) == GenRangeInt(MinArms(torso.arm_slots), torso.arm_slots, n)

\* random_body; d holds every draw: d.arms and d.legs hold a draw for each
\* limb that can be generated
random_body(d) ==
    LET torso == random_torso(d.torso)
        head == random_head(d.head)
        num_arms == NumArms(torso, d.num_arms)
    IN [torso |-> torso,
        head |-> head,
        arms |-> [i \in 1..num_arms |-> random_arm(d.arms[i], i - 1)],
        legs |-> [i \in 1..torso.leg_slots |-> random_leg(d.legs[i])]]

\* the draws of one randomize_part call
PartDraw(size_u, mat, dens_u, hp_u, en_u) ==
    [size_u |-> size_u, mat |-> mat, dens_u |-> dens_u, hp_u |-> hp_u, en_u |-> en_u]

\* outcomes of the random source, one record per random_body call: the
\* torso's size and the arm count vary, one outcome for the other draws
ThinDraws ==
    {[torso |-> [part |-> PartDraw(su, 6, 500, 500, 500)],
      head |-> [part |-> PartDraw(500, 3, 0, 0, 1000),
                refresh_u |-> 500, close_u |-> 0, far_u |-> 1000],
      num_arms |-> n,
      arms |-> [i \in 1..2 |-> [part |-> PartDraw(0, 5, 500, 1000, 0), meta_u |-> 500]],
      legs |-> [i \in 1..2 |-> [part |-> PartDraw(1000, 1, 1000, 500, 500),
                                walk_backward |-> (i = 1),
                                speed_u |-> 500, speed_v |-> 0,
                                jump_u |-> 0, jump_v |-> 1000]]]
       : su \in {0, 1000}, n \in 0..3}

\* outcomes of the random source varying every part
RichDraws ==
    {[torso |-> [part |-> tp],
      head |-> [part |-> PartDraw(500, 3, 0, 0, 1000),
                refresh_u |-> ru, close_u |-> 0, far_u |-> 1000],
      num_arms |-> n,
      arms |-> [i \in 1..2 |-> [part |-> PartDraw(0, 5, 500, 1000, 0), meta_u |-> mu[i]]],
      legs |-> [i \in 1..2 |-> [part |-> lp[i],
                                walk_backward |-> wb[i],
                                speed_u |-> 500, speed_v |-> sv[i],
                                jump_u |-> 0, jump_v |-> 1000]]]
       : tp \in {PartDraw(0, 6, 500, 500, 500), PartDraw(1000, 2, 0, 1000, 0)},
         ru \in {0, 1000}, n \in 0..3,
         mu \in [1..2 -> {0, 500}],
         lp \in [1..2 -> {PartDraw(1000, 1, 1000, 500, 500), PartDraw(500, 4, 0, 0, 1000)}],
         wb \in [1..2 -> BOOLEAN],
         sv \in [1..2 -> {0, 1000}]}

-----------------------------------------------------------------------------
(* body.rs: Stats and the aggregation of update_body_system *)

\* Stats::default()
StatsDefault ==
    [health |-> 0, energy |-> 0, max_health |-> 0, max_energy |-> 0,
     weight |-> 0, width |-> 0, speed |-> 0, reaction_time |-> 0,
     close_accuracy |-> 0, far_accuracy |-> 0, jump_force |-> 0,
     skills |-> <<>>]

\* Stats::add_part_stats
add_part_stats(st, part_stats) ==
    [st EXCEPT !.max_health = @ + part_stats.health,
               !.max_energy = @ + part_stats.energy,
               !.weight = @ + part_stats.weight,
               !.skills = @ \o part_stats.skills]

\* BodyPart<TorsoMeta>::add_to_stats and BodyPart<()>::add_to_stats: the
\* metadata adds nothing
add_plain_to_stats(st, part) == add_part_stats(st, part.stats)

\* a bug: the reaction time is taken from the head
add_head_sets_reaction_time(st, head) ==
    LET s1 == add_part_stats(st, head.stats)
    IN [s1 EXCEPT !.close_accuracy = Max(head.close_vision, @),
                  !.far_accuracy = Max(head.far_vision, @),
                  !.reaction_time = head.refresh_rate]

\* BodyPart<HeadMeta>::add_to_stats
add_head_to_stats(st, head) ==
    LET s1 == add_part_stats(st, head.stats)
    IN [s1 EXCEPT !.close_accuracy = Max(head.close_vision, @),
                  !.far_accuracy = Max(head.far_vision, @),
                  !.reaction_time = Min(head.refresh_rate, @)]

\* BodyPart<LegMeta>::add_to_stats
add_leg_to_stats(st, leg) ==
    LET s1 == add_part_stats(st, leg.stats)
    IN [s1 EXCEPT !.speed = Min(leg.max_speed, @),
                  !.jump_force = @ + leg.jump_force]

RECURSIVE FoldLegs(_, _)
FoldLegs(st, legs) ==
    IF legs = <<>> THEN st ELSE FoldLegs(add_leg_to_stats(st, Head(legs)), Tail(legs))

RECURSIVE FoldArms(_, _)
FoldArms(st, arms) ==
    IF arms = <<>> THEN st ELSE FoldArms(add_plain_to_stats(st, Head(arms)), Tail(arms))

\* Vec::sort_by_key(|skill| skill.order()): a stable sort on keys 0..4
SortByOrder(skills) ==
    SelectSeq(skills, LAMBDA k : order(k) = 0)
      \o SelectSeq(skills, LAMBDA k : order(k) = 1)
      \o SelectSeq(skills, LAMBDA k : order(k) = 2)
      \o SelectSeq(skills, LAMBDA k : order(k) = 3)
      \o SelectSeq(skills, LAMBDA k : order(k) = 4)

\* Vec::dedup: drops every element equal (PartialEq) to the one kept before it
RECURSIVE Dedup(_)
Dedup(skills) ==
    IF Len(skills) <= 1 THEN skills
    ELSE LET rest == Dedup(Tail(skills))
         IN IF SkillEq(Head(skills), Head(rest)) THEN rest
            ELSE <<Head(skills)>> \o rest

\* stats.width = torso_scale.x = 0.3 * torso.stats.size
TorsoWidth(b) == RoundDiv(3 * b.torso.stats.size, 10)

\* a bug: the aggregation goes on from the Stats it finds
KeepStats(st) == st

\* *stats = Stats::default()
ResetStats(st) == StatsDefault

\* the Stats update_body_system computes for one body from the Stats st the
\* entity holds
Aggregate(st, b) ==
    LET s0 == [ResetStats(st) EXCEPT !.speed = F32_INFINITY,
                                     !.max_energy = 100 * Milli]
        s1 == add_plain_to_stats(s0, b.torso)
        s2 == add_head_to_stats(s1, b.head)
        s3 == FoldLegs(s2, b.legs)
        s4 == FoldArms(s3, b.arms)
        s5 == [s4 EXCEPT !.skills = Dedup(SortByOrder(@))]
        s6 == [s5 EXCEPT !.width = TorsoWidth(b)]
    IN [s6 EXCEPT !.health = s6.max_health, !.energy = s6.max_energy]

\* the Limb children update_body_system spawns, each with the identity
\* rotation: Leg(i) for every leg, Arm(i) for every arm
SpawnLimbs(b) ==
    [legs |-> [i \in 1..Len(b.legs) |-> 0],
     arms |-> [i \in 1..Len(b.arms) |-> 0]]

-----------------------------------------------------------------------------
(* main.rs: do_animation *)

\* std::f32::consts::PI in 1/Milli
PI == 3142

\* f32::sin on 1/Milli radians: the argument is reduced to [0, 2 PI) and the
\* half wave is Bhaskara's rational approximation, exact at 0, PI/2 and PI
HalfWave(x) == RoundDiv(16 * x * (PI - x), RoundDiv(5 * PI * PI - 4 * x * (PI - x), Milli))

Sin(x) ==
    LET r == x % (2 * PI)
    IN IF r <= PI THEN HalfWave(r) ELSE -HalfWave(r - PI)

\* ANIMATION_SPEED
ANIMATION_SPEED == 1

\* END_TIME = 0.1 of the progress, in 1/TimeScale
END_TIME == 2

\* the 0.1 kept between two bodies, in 1/Milli
Margin == 100

\* the 0.0001 of TurnAround, in 1/DirScale
Epsilon == 1

\* BodyTransforms::get_entity(limb).unwrap(): is there a child with this tag
HasLimb(parts, limb) ==
    \/ limb[1] = "Arm" /\ limb[2] + 1 \in DOMAIN parts.arms
    \/ limb[1] = "Leg" /\ limb[2] + 1 \in DOMAIN parts.legs

\* the position walk integrates: *position += dt * stats.speed * direction * mul
WalkPosition(position, direction, mul, dt, st) ==
    position + RoundDiv(dt * RoundDiv(st.speed * direction, DirScale) * mul,
                        TimeScale * Milli)

\* the rotation walk gives a limb: the swing below 1 - END_TIME, the lerp
\* towards Quat::IDENTITY after it (the lerp taken on the angle)
WalkAngle(angle, i, is_leg, mul, st, progress) ==
    IF progress < TimeScale - END_TIME
    THEN LET distance_moved == RoundDiv(RoundDiv(st.speed * progress, TimeScale) * mul, Milli)
             leg_sign == (i % 2) * 2 - 1
             sign == IF is_leg THEN leg_sign ELSE -leg_sign
         IN Sin(sign * distance_moved)
    ELSE LET t == progress - TimeScale + END_TIME
         IN RoundDiv(angle * (END_TIME - t), END_TIME)

\* walk: the limb poses after the call (limb i is element i + 1)
WalkLimbs(parts, mul, st, progress) ==
    [legs |-> [j \in DOMAIN parts.legs |->
                  WalkAngle(parts.legs[j], j - 1, TRUE, mul, st, progress)],
     arms |-> [j \in DOMAIN parts.arms |->
                  WalkAngle(parts.arms[j], j - 1, FALSE, mul, st, progress)]]

\* a bug: the 0.0001 is added in the direction of the sign in the first half
TurnDirectionEpsilonAdded(direction, progress) ==
    IF 2 * progress <= TimeScale
    THEN LET t == TimeScale - progress * 2
         IN RoundDiv(direction * t, TimeScale) + Signum(direction) * Epsilon
    ELSE LET t == progress * 2 - TimeScale
         IN RoundDiv(direction * (TimeScale - t) + t * Signum(direction) * DirScale,
                     TimeScale)

\* Skill::TurnAround: the facing after one step at this progress
TurnDirection(direction, progress) ==
    IF 2 * progress <= TimeScale
    THEN LET t == TimeScale - progress * 2
         IN RoundDiv(direction * t, TimeScale) - Signum(direction) * Epsilon
    ELSE LET t == progress * 2 - TimeScale
         IN RoundDiv(direction * (TimeScale - t) + t * Signum(direction) * DirScale,
                     TimeScale)

\* Skill::BasicMelee: the rotation of the ability's limb
MeleeAngle(progress) == Sin(RoundDiv(progress * PI, TimeScale))

MeleeLimbs(parts, limb, progress) ==
    IF limb[1] = "Arm"
    THEN [parts EXCEPT !.arms[limb[2] + 1] = MeleeAngle(progress)]
    ELSE [parts EXCEPT !.legs[limb[2] + 1] = MeleeAngle(progress)]

\* a bug: the arms of the match are empty instead of todo!()
NothingUnimplemented(skill) == FALSE

\* the skill variants whose arm of the match is todo!()
Unimplemented(skill) == skill.kind \in {"BasicRanged", "Scan"}

\* do_animation panics: the index is outside stats.skills, the variant is
\* todo!(), or the ability's limb has no child
StepPanics(st, parts, animation) ==
    \/ animation.skill + 1 \notin DOMAIN st.skills
    \/ LET skill == st.skills[animation.skill + 1]
       IN \/ Unimplemented(skill)
          \/ skill.kind = "BasicMelee" /\ ~HasLimb(parts, skill.limb)

\* a bug: the 0.1 is left out of the gap
MinGapNoMargin(st, enemy_stats) == RoundDiv(st.width + enemy_stats.width, 2)

\* the gap do_animation keeps between the two translations
MinGap(st, enemy_stats) == RoundDiv(st.width + enemy_stats.width, 2) + Margin

\* a bug: the integrated position is stored as it is
NoClamp(x, position, enemy_x, st, enemy_stats) == position

\* a bug: the side is taken from the integrated position, not from the
\* translation before the step
ClampBySideOfPosition(x, position, enemy_x, st, enemy_stats) ==
    IF position < enemy_x
    THEN Min(position, enemy_x - (RoundDiv(st.width + enemy_stats.width, 2) + Margin))
    ELSE Max(position, enemy_x + (RoundDiv(st.width + enemy_stats.width, 2) + Margin))

\* the translation.x do_animation stores: the integrated position clamped on
\* the side of the opponent the actor was on before the step
ResolveOverlap(x, position, enemy_x, st, enemy_stats) ==
    IF x < enemy_x
    THEN Min(position, enemy_x - MinGap(st, enemy_stats))
    ELSE Max(position, enemy_x + MinGap(st, enemy_stats))

\* animation.progress += dt * ANIMATION_SPEED
Advance(progress, dt) == progress + dt * ANIMATION_SPEED

\* one call of do_animation that does not panic: the actor's transform and
\* limb poses, the progress, and the position it integrated
do_animation(st, enemy_stats, tr, enemy_tr, parts, animation, dt) ==
    LET skill == st.skills[animation.skill + 1]
        p == animation.progress
        position ==
            CASE skill.kind = "WalkBackward" -> WalkPosition(tr.x, tr.scale_x, -500, dt, st)
              [] skill.kind = "WalkForward" -> WalkPosition(tr.x, tr.scale_x, 1000, dt, st)
              [] OTHER -> tr.x
        direction ==
            IF skill.kind = "TurnAround" THEN TurnDirection(tr.scale_x, p) ELSE tr.scale_x
        poses ==
            CASE skill.kind = "WalkBackward" -> WalkLimbs(parts, -500, st, p)
              [] skill.kind = "WalkForward" -> WalkLimbs(parts, 1000, st, p)
              [] skill.kind = "BasicMelee" -> MeleeLimbs(parts, skill.limb, p)
              [] OTHER -> parts
    IN [transform |-> [x |-> ResolveOverlap(tr.x, position, enemy_tr.x, st, enemy_stats),
                       scale_x |-> direction],
        limbs |-> poses,
        progress |-> Advance(p, dt),
        position |-> position]

-----------------------------------------------------------------------------
(* The systems *)

\* the history record before any system ran
NoHistory ==
    [event |-> "setup",   \* the system that ran last and what it did
     runs |-> 0,          \* selections accepted so far
     slot |-> None,       \* use_skill before the system ran
     click |-> 0,         \* the last button button_system saw clicked
     kind |-> "",         \* skill variant of the last animation step
     p |-> 0,             \* progress the last step was executed with
     dt |-> 0,            \* elapsed time of the last step
     x |-> 0,             \* translation.x before the last step
     position |-> 0,      \* position the last step integrated, before the clamp
     scale_x |-> 0,       \* facing before the last step
     run_scale_x |-> 0,   \* facing when the current run started
     flips |-> 0,         \* sign changes of the facing in the current run
     used |-> FALSE]      \* the last aggregation found Stats other than the default

\* update_body_system: every changed Body gets its Stats recomputed and its
\* limb children respawned
update_body_system ==
    /\ ~panicked
    /\ body_changed
    /\ body_changed' = FALSE
    /\ stats' = [e \in DOMAIN body |-> Aggregate(stats[e], body[e])]
    /\ limbs' = SpawnLimbs(body.player)
    /\ h' = [h EXCEPT !.event = "update_body",
                      !.used = (stats.player # StatsDefault)]
    /\ UNCHANGED <<body, transform, use_skill, maybe_animation, panicked>>

\* update_ui_system: one SkillButton(i) per entry of the player's skill list
Buttons == 0..(Len(stats.player.skills) - 1)

\* a bug: the is_none() test is missing
ButtonAlwaysAccepts(slot) == TRUE

\* button_system is_none() test: does the system look at the interactions
ButtonAccepts(slot) == slot = None

\* button_system: the Clicked arm of the loop, over the buttons whose
\* Interaction changed to Clicked, in query order
RECURSIVE ClickLoop(_, _)
ClickLoop(slot, clicks) ==
    IF clicks = <<>> THEN slot ELSE ClickLoop(Some(Head(clicks)), Tail(clicks))

button_system(clicks) ==
    /\ ~panicked
    /\ use_skill = None => h.runs < MaxRuns
    /\ use_skill' = IF ButtonAccepts(use_skill) THEN ClickLoop(use_skill, clicks)
                    ELSE use_skill
    /\ h' = [NoHistory EXCEPT !.event = "button", !.slot = use_skill,
                              !.click = clicks[Len(clicks)],
                              !.runs = IF use_skill = None THEN h.runs + 1 ELSE h.runs,
                              !.run_scale_x = h.run_scale_x,
                              !.flips = h.flips]
    /\ UNCHANGED <<body, body_changed, stats, transform, limbs, maybe_animation,
                   panicked>>

\* a bug: the run plays the first skill of the list, not the selected one
StartAnimationOfFirst(skill) == [skill |-> 0, progress |-> 0]

\* a bug: the run starts one frame into the animation
StartAnimationAdvanced(skill) == [skill |-> skill, progress |-> 1]

\* the Animation use_skill_system creates for a selected skill
StartAnimation(skill) == [skill |-> skill, progress |-> 0]

\* a bug: the run ends only above 2.0
AnimationDoneLate(progress) == progress > 2 * TimeScale

\* the test that ends a run: animation.progress > 1.0
AnimationDone(progress) == progress > TimeScale

\* a bug: the run ends and the selection stays in the slot
KeepSelection(slot) == slot

\* **use_skill = None, when the run ends
ClearSelection(slot) == None

\* sign changes of the facing, counted over the steps of a run
Flipped(before, after) == Signum(before) # Signum(after)

\* use_skill_system with time.delta_seconds() = dt
use_skill_system(dt) ==
    /\ ~panicked
    /\ IF IsSome(maybe_animation)
       THEN LET animation == Unwrap(maybe_animation)
            IN IF StepPanics(stats.player, limbs, animation)
               THEN /\ panicked' = TRUE
                    /\ h' = [h EXCEPT !.event = "panic", !.slot = use_skill, !.dt = dt,
                                      !.p = animation.progress, !.click = 0]
                    /\ UNCHANGED <<transform, limbs, maybe_animation, use_skill>>
               ELSE LET r == do_animation(stats.player, stats.enemy, transform.player,
                                          transform.enemy, limbs, animation, dt)
                        \* animation.progress after the call, the same for
                        \* every skill
                        progress == Advance(animation.progress, dt)
                    IN /\ IF AnimationDone(progress)
                          THEN /\ maybe_animation' = None
                               /\ use_skill' = ClearSelection(use_skill)
                          ELSE /\ maybe_animation' =
                                     Some([animation EXCEPT !.progress = progress])
                               /\ UNCHANGED use_skill
                       /\ transform' = [transform EXCEPT !.player = r.transform]
                       /\ limbs' = r.limbs
                       /\ h' = [h EXCEPT
                                  !.event = IF AnimationDone(progress)
                                            THEN "finish" ELSE "step",
                                  !.slot = use_skill,
                                  !.click = 0,
                                  !.kind = stats.player.skills[animation.skill + 1].kind,
                                  !.p = animation.progress,
                                  !.dt = dt,
                                  !.x = transform.player.x,
                                  !.position = r.position,
                                  !.scale_x = transform.player.scale_x,
                                  !.flips = IF Flipped(transform.player.scale_x,
                                                       r.transform.scale_x)
                                            THEN @ + 1 ELSE @]
                       /\ UNCHANGED panicked
       ELSE IF IsSome(use_skill)
            THEN /\ maybe_animation' = Some(StartAnimation(Unwrap(use_skill)))
                 /\ h' = [NoHistory EXCEPT !.event = "start", !.slot = use_skill,
                                           !.dt = dt, !.runs = h.runs,
                                           !.run_scale_x = transform.player.scale_x]
                 /\ UNCHANGED <<transform, limbs, use_skill, panicked>>
            ELSE UNCHANGED <<transform, limbs, use_skill, maybe_animation, panicked, h>>
    /\ UNCHANGED <<body, body_changed, stats>>

\* the sequences of at most n clicked buttons
ClickSeqs(n) == UNION {[1..k -> Buttons] : k \in 1..n}

ButtonFrame == \E clicks \in ClickSeqs(MaxClicks) : button_system(clicks)

Tick == \E dt \in DTs : use_skill_system(dt)

Next == update_body_system \/ ButtonFrame \/ Tick

-----------------------------------------------------------------------------
(* Initial states *)

\* Transform::from_translation(Vec3::new(x, 0.0, 0.0)): scale is Vec3::ONE
FromTranslation(x) == [x |-> x, scale_x |-> DirScale]

\* the bodies the player's BodyBundle can hold: Body::default(), or the
\* random_body of the alternative line of scene_setup_system
PlayerBodies ==
    {DefaultBody}
      \cup {random_body(d) : d \in {t \in ThinDraws : t.torso.part.size_u = 0 /\ t.num_arms = 0}}

\* the enemy's random_body
EnemyBodies == {random_body(d) : d \in {t \in ThinDraws : t.num_arms = 1}}

\* the x of the player and of the enemy: scene_setup_system's -4 and 4, and
\* a placement with the player on the right of the enemy
Placements == {<<-4 * Milli, 4 * Milli>>, <<1 * Milli, -1 * Milli>>}

InitWith(bodies, enemies, places) ==
    /\ body \in [player : bodies, enemy : enemies]
    /\ body_changed = TRUE
    /\ stats = [player |-> StatsDefault, enemy |-> StatsDefault]
    /\ \E pl \in places :
          transform = [player |-> FromTranslation(pl[1]), enemy |-> FromTranslation(pl[2])]
    /\ limbs = [legs |-> <<>>, arms |-> <<>>]
    /\ use_skill = None
    /\ maybe_animation = None
    /\ panicked = FALSE
    /\ h = NoHistory

Init == InitWith(PlayerBodies, EnemyBodies, Placements)

Spec == Init /\ [][Next]_vars

\* scene_setup_system's placement, for either body of the player
InitFair ==
    InitWith(PlayerBodies, {random_body(d) : d \in {t \in ThinDraws : t.num_arms = 1 /\ t.torso.part.size_u = 0}},
             {<<-4 * Milli, 4 * Milli>>})

\* every frame runs use_skill_system, and frames keep coming
FairSpec == InitFair /\ [][Next]_vars /\ WF_vars(Tick)

\* the program's scene with every part of the enemy varied, and the
\* aggregation alone
InitBody ==
    InitWith({DefaultBody}, {random_body(d) : d \in RichDraws}, {<<-4 * Milli, 4 * Milli>>})

NextBody == update_body_system

SpecBody == InitBody /\ [][NextBody]_vars

\* bodies no generator builds: the arms grant the ability variants that
\* do_animation leaves todo!(), next to the default melee
SyntheticArm(skills) == [DefaultArm(0) EXCEPT !.stats.skills = skills]

SyntheticBodies ==
    {[DefaultBody EXCEPT !.arms = <<SyntheticArm(<<BasicRanged(Arm(0), 5 * Milli)>>),
                                    SyntheticArm(<<Scan(Arm(1), 5 * Milli)>>)>>],
     [DefaultBody EXCEPT !.arms = <<DefaultArm(0),
                                    SyntheticArm(<<BasicRanged(Arm(1), 5 * Milli),
                                                   BasicMelee(Arm(1), 5 * Milli)>>)>>]}

InitAny == InitWith(SyntheticBodies, EnemyBodies, Placements)

\* do_animation on skill lists of every variant
SpecAny == InitAny /\ [][Next]_vars

\* bodies no generator builds: both arms grant the same ability, field by
\* field, and every leg grants WalkForward twice
TwinBodies ==
    {[DefaultBody EXCEPT !.arms = <<DefaultArm(0), DefaultArm(0)>>],
     [DefaultBody EXCEPT
        !.arms = <<DefaultArm(1), DefaultArm(1)>>,
        !.legs = [i \in 1..2 |->
                    [DefaultLeg EXCEPT !.stats.skills =
                        <<WalkForward, TurnAround, WalkForward, TurnAround>>]]]}

\* a Stats component as an earlier aggregation and a fight can leave it
UsedStats ==
    [health |-> 3 * Milli, energy |-> 40 * Milli, max_health |-> 24 * Milli,
     max_energy |-> 78 * Milli, weight |-> 146 * Milli, width |-> 300,
     speed |-> 5 * Milli, reaction_time |-> 2 * Milli, close_accuracy |-> 1 * Milli,
     far_accuracy |-> 1 * Milli, jump_force |-> 30 * Milli,
     skills |-> <<WalkForward, BasicMelee(Arm(0), 5 * Milli)>>]

\* update_body_system as a function of the Body and of the Stats it finds:
\* hand-built and generated bodies, fresh and used Stats
InitStats ==
    /\ body \in [player : {DefaultBody} \cup TwinBodies \cup SyntheticBodies,
                  enemy : {random_body(d) :
                             d \in {r \in RichDraws : r.num_arms \in {0, 1}
                                                      /\ r.legs[1].speed_v = 0}}]
    /\ body_changed = TRUE
    /\ stats \in [player : {StatsDefault, UsedStats}, enemy : {StatsDefault, UsedStats}]
    /\ transform = [player |-> FromTranslation(-4 * Milli),
                    enemy |-> FromTranslation(4 * Milli)]
    /\ limbs = [legs |-> <<>>, arms |-> <<>>]
    /\ use_skill = None
    /\ maybe_animation = None
    /\ panicked = FALSE
    /\ h = NoHistory

SpecStats == InitStats /\ [][NextBody]_vars

-----------------------------------------------------------------------------
(* Observations used by the properties *)

Active == IsSome(maybe_animation)
Idle == maybe_animation = None

\* the last system run was an animation step (do_animation returned)
Stepped == h.event \in {"step", "finish"}

\* the step that leads to the next state is one of use_skill_system
TickStep == h'.event \notin {"button", "update_body"}

\* the skill the Active animation plays
ActiveSkill == stats.player.skills[Unwrap(maybe_animation).skill + 1]

\* horizontal distance between the actor and the opponent
Gap == Abs(transform.player.x - transform.enemy.x)

\* (own_width + opponent_width)/2 + 0.1
RequiredGap == RoundDiv(stats.player.width + stats.enemy.width, 2) + 100

\* the gap the last step would have left on the actor's side without the clamp
NaiveGap ==
    IF h.x < transform.enemy.x THEN transform.enemy.x - h.position
    ELSE h.position - transform.enemy.x

-----------------------------------------------------------------------------
(* Properties *)

\* C1: from every state in which the animation is Active, with every tick
\* having a positive elapsed time, the animation returns to Idle, and the
\* step that makes it Idle leaves the selected-skill slot empty; for every
\* skill kind of the actor's list, BasicMelee included.
C1_RunReturnsToIdle ==
    /\ Active ~> (Idle /\ use_skill = None)
    /\ [][(Active /\ Idle') => use_skill' = None]_vars

\* a BasicMelee run has ended: Idle again and the slot is empty
C1_Witness ==
    /\ h.event = "finish" /\ h.kind = "BasicMelee"
    /\ Idle /\ use_skill = None

\* C2: after every animation step, for every skill kind and elapsed time, the
\* distance between actor and opponent is at least
\* (own_width + opponent_width)/2 + 0.1.
C2_GapKept == Stepped => Gap >= RequiredGap

\* a walk step whose integrated position was clamped
C2_Witness ==
    /\ Stepped /\ h.kind \in {"WalkForward", "WalkBackward"}
    /\ transform.player.x # h.position

\* C3: in every complete TurnAround run the sign of the facing changes
\* exactly once, so the facing at the end has the opposite sign of the facing
\* at the start, whatever the elapsed times.
C3_TurnReversesOnce ==
    (h.event = "finish" /\ h.kind = "TurnAround")
        => /\ h.flips = 1
           /\ Signum(transform.player.scale_x) # Signum(h.run_scale_x)

\* C4 as claimed: whenever the animation is Active, 0 <= progress < 1.
C4_ProgressBelowOne ==
    Active => /\ Unwrap(maybe_animation).progress >= 0
              /\ Unwrap(maybe_animation).progress < TimeScale

\* C4 amended: whenever the animation is Active, 0 <= progress <= 1; a step
\* is executed with progress exactly 1 but never with a progress above 1.
C4_ProgressAtMostOne ==
    /\ Active => /\ Unwrap(maybe_animation).progress >= 0
                 /\ Unwrap(maybe_animation).progress <= TimeScale
    /\ Stepped => h.p <= TimeScale

\* a step was executed with progress exactly 1
C4_Witness == Stepped /\ h.p = TimeScale

\* C5: a tick in Idle with the slot holding k makes the animation Active
\* with skill k and progress 0; with the slot empty the animation stays Idle.
C5_IdleTick ==
    [][Idle => IF IsSome(use_skill) /\ TickStep
               THEN maybe_animation' = Some([skill |-> Unwrap(use_skill), progress |-> 0])
               ELSE Idle']_vars

\* a tick has started the selected skill, here not the first of the list
C5_Witness ==
    /\ h.event = "start" /\ IsSome(use_skill) /\ Unwrap(use_skill) > 0
    /\ maybe_animation = Some([skill |-> Unwrap(use_skill), progress |-> 0])

\* C6: while the slot is occupied a button click never changes it:
\* button_system writes the slot only when it is empty.
C6_ClickIgnoredWhileOccupied ==
    [][(h'.event = "button" /\ use_skill' # use_skill) => use_skill = None]_vars

\* another button was clicked during a run and the slot kept its skill
C6_Witness ==
    /\ h.event = "button" /\ Active /\ IsSome(h.slot)
    /\ use_skill = h.slot /\ h.click # Unwrap(use_skill)

\* C7: when the Active animation's skill is BasicRanged or Scan, the step
\* aborts; no step with such a skill returns and advances the progress.
C7_UnimplementedAborts ==
    [][(Active /\ ActiveSkill.kind \in {"BasicRanged", "Scan"} /\ TickStep)
          => (panicked' /\ UNCHANGED <<maybe_animation, transform, limbs, use_skill>>)]_vars

\* the step of a Scan skill has aborted
C7_Witness ==
    /\ panicked /\ h.event = "panic"
    /\ Active /\ ActiveSkill.kind = "Scan"

\* C8: a WalkForward step whose integrated position would leave less than
\* the required gap leaves exactly the required gap; the stored position is
\* the clamped one.
C8_ClampIsExact ==
    (Stepped /\ h.kind = "WalkForward" /\ NaiveGap < RequiredGap)
        => /\ Gap = RequiredGap
           /\ transform.player.x # h.position

\* a WalkForward step integrated a position closer than the required gap
C8_Witness == Stepped /\ h.kind = "WalkForward" /\ NaiveGap < RequiredGap

\* C9: a step never moves the actor to the other side of the opponent (left
\* stays strictly left, at or right stays right), and a step that moves away
\* while the required gap holds stores the integrated position unchanged.
C9_SideKept ==
    Stepped =>
        /\ h.x < transform.enemy.x => transform.player.x < transform.enemy.x
        /\ h.x >= transform.enemy.x => transform.player.x > transform.enemy.x
        /\ (/\ h.x < transform.enemy.x
            /\ h.position <= h.x
            /\ transform.enemy.x - h.x >= RequiredGap) => transform.player.x = h.position
        /\ (/\ h.x >= transform.enemy.x
            /\ h.position >= h.x
            /\ h.x - transform.enemy.x >= RequiredGap) => transform.player.x = h.position

\* an actor on the right integrated a position left of the opponent
C9_Witness ==
    /\ Stepped /\ h.x >= transform.enemy.x /\ h.position < transform.enemy.x
    /\ transform.player.x > transform.enemy.x

\* C10: every body random_body produces has as many legs as the torso has
\* leg slots, and an arm count in [ceil(0.2 * arm_slots), arm_slots].
C10_LimbCounts ==
    LET b == body.enemy
    IN /\ Len(b.legs) = b.torso.leg_slots
       /\ 5 * Len(b.arms) >= b.torso.arm_slots
       /\ Len(b.arms) <= b.torso.arm_slots

\* a generated body with fewer arms than arm slots went through the
\* aggregation
C10_Witness ==
    /\ h.event = "update_body"
    /\ Len(body.enemy.arms) < body.enemy.torso.arm_slots
    /\ Len(body.enemy.arms) >= 1

\* the last system run was the aggregation
Aggregated == h.event = "update_body"

\* the sum of one PartStats field over the parts of a sequence
RECURSIVE SumOver(_, _)
SumOver(parts, field) ==
    IF parts = <<>> THEN 0
    ELSE Head(parts).stats[field] + SumOver(Tail(parts), field)

\* the sum of one PartStats field over torso, head, legs and arms
BodySum(b, field) ==
    b.torso.stats[field] + b.head.stats[field]
      + SumOver(b.legs, field) + SumOver(b.arms, field)

\* C11: after an aggregation max_health is the sum of the parts' health,
\* max_energy is 100 plus the sum of their energy and weight is the sum of
\* their weight, whatever the Stats held before; the default Body has
\* max_health 24.
C11_StatsAreSums ==
    Aggregated =>
        /\ \A e \in DOMAIN body :
              /\ stats[e].max_health = BodySum(body[e], "health")
              /\ stats[e].max_energy = 100 * Milli + BodySum(body[e], "energy")
              /\ stats[e].weight = BodySum(body[e], "weight")
        /\ body.player = DefaultBody => stats.player.max_health = 24 * Milli

\* the default Body was aggregated over Stats left by an earlier use, next
\* to a generated body with parts of negative energy
C11_Witness ==
    /\ Aggregated /\ h.used
    /\ body.player = DefaultBody
    /\ stats.player.max_health = 24 * Milli
    /\ stats.player.health = 24 * Milli
    /\ BodySum(body.enemy, "energy") < 0
    /\ Len(body.enemy.arms) = 2

\* every skill the parts of a body grant, in the order of the aggregation
RECURSIVE SkillsOf(_)
SkillsOf(parts) ==
    IF parts = <<>> THEN <<>> ELSE Head(parts).stats.skills \o SkillsOf(Tail(parts))

GrantedSkills(b) ==
    b.torso.stats.skills \o b.head.stats.skills \o SkillsOf(b.legs) \o SkillsOf(b.arms)

\* the number of entries of a variant in a skill list
CountKind(skills, kind) == Len(SelectSeq(skills, LAMBDA k : k.kind = kind))

\* C12: after the sort and the dedup of an aggregation the skill list holds
\* WalkBackward, WalkForward and TurnAround at most once each (once when any
\* part grants it), and as many BasicMelee, BasicRanged and Scan entries as
\* the parts grant: abilities are never merged, equal ones included.
C12_OnlyPlainSkillsMerge ==
    Aggregated =>
        \A e \in DOMAIN body :
            /\ \A kind \in {"WalkBackward", "WalkForward", "TurnAround"} :
                  CountKind(stats[e].skills, kind)
                    = IF CountKind(GrantedSkills(body[e]), kind) > 0 THEN 1 ELSE 0
            /\ \A kind \in AbilityKinds :
                  CountKind(stats[e].skills, kind)
                    = CountKind(GrantedSkills(body[e]), kind)

\* WalkForward granted four times is listed once, and the list holds two
\* BasicMelee entries that are equal field by field
C12_Witness ==
    /\ Aggregated
    /\ CountKind(GrantedSkills(body.player), "WalkForward") = 4
    /\ CountKind(stats.player.skills, "WalkForward") = 1
    /\ \E i, j \in DOMAIN stats.player.skills :
          /\ i < j
          /\ stats.player.skills[i].kind = "BasicMelee"
          /\ stats.player.skills[i] = stats.player.skills[j]

\* the last step ended a run of this skill variant
Finished(kind) == h.event = "finish" /\ h.kind = kind

\* the skill of the run the last step belonged to
LastSkill == stats.player.skills[Unwrap(h.slot) + 1]

\* the pose angle of a limb of the player
LimbAngle(limb) ==
    IF limb[1] = "Arm" THEN limbs.arms[limb[2] + 1] ELSE limbs.legs[limb[2] + 1]

\* C13: when a BasicMelee run completes, the pose angle of the limb the
\* ability names is back at neutral (0), whatever the elapsed times.
C13_MeleeEndsNeutral ==
    Finished("BasicMelee") => LimbAngle(LastSkill.limb) = 0

\* the last step was a TurnAround step executed with progress <= 0.5
TurnedInFirstHalf == Stepped /\ h.kind = "TurnAround" /\ 2 * h.p <= TimeScale

\* both non-zero and of the same sign
SameSign(a, b) == (a > 0 /\ b > 0) \/ (a < 0 /\ b < 0)

\* |facing before the last step| * (1 - 2 * progress)
Shrunk == Abs(RoundDiv(h.scale_x * (TimeScale - 2 * h.p), TimeScale))

\* C14 as claimed: every TurnAround step executed with progress <= 0.5
\* writes a non-zero facing of the sign the facing had when the run started.
C14_NoFlipInFirstHalf ==
    TurnedInFirstHalf => SameSign(transform.player.scale_x, h.run_scale_x)

\* C14 amended: a TurnAround step executed with progress <= 0.5 applies the
\* 0.0001 against the sign of the facing it finds: it keeps that sign (and
\* writes a non-zero facing) while |facing| * (1 - 2 * progress) is above
\* 0.0001 and flips it when the product is below; the step at progress 0.5
\* writes -signum(facing) * 0.0001.
C14_EpsilonAgainstSign ==
    TurnedInFirstHalf =>
        /\ Shrunk > Epsilon => SameSign(transform.player.scale_x, h.scale_x)
        /\ Shrunk < Epsilon => SameSign(transform.player.scale_x, -Signum(h.scale_x))
        /\ 2 * h.p = TimeScale
              => transform.player.scale_x = -Signum(h.scale_x) * Epsilon

\* the step at progress 0.5 found a positive facing and wrote -0.0001
C14_Witness ==
    /\ TurnedInFirstHalf /\ 2 * h.p = TimeScale
    /\ h.scale_x > 0 /\ h.run_scale_x > 0
    /\ transform.player.scale_x = -Epsilon

\* C15: when a TurnAround run completes, the magnitude of the facing is the
\* magnitude it had when the run started (only the sign differs), whatever
\* the elapsed times.
C15_TurnKeepsMagnitude ==
    Finished("TurnAround") => Abs(transform.player.scale_x) = Abs(h.run_scale_x)

\* C16: when a WalkForward or WalkBackward run completes, every leg pose
\* and every arm pose is neutral (0), whatever the elapsed times.
C16_WalkEndsNeutral ==
    (Finished("WalkForward") \/ Finished("WalkBackward"))
        => /\ \A i \in DOMAIN limbs.legs : limbs.legs[i] = 0
           /\ \A i \in DOMAIN limbs.arms : limbs.arms[i] = 0

\* C17: whenever the animation is Active, the selected-skill slot holds the
\* index of the skill the animation plays; it is never empty or another
\* index during a run.
C17_SlotHoldsPlayingSkill ==
    Active => use_skill = Some(Unwrap(maybe_animation).skill)

\* a run of a skill other than the first is under way after a step, with
\* the slot holding its index
C17_Witness ==
    /\ Active /\ h.event = "step"
    /\ Unwrap(maybe_animation).skill > 0
    /\ Unwrap(maybe_animation).progress > 0
    /\ use_skill = Some(Unwrap(maybe_animation).skill)

\* C18: after an aggregation of a body whose head has a refresh_rate >= 0,
\* reaction_time is 0 whatever the refresh_rate: it starts at the default 0
\* and is only lowered by min(current, refresh_rate).
C18_ReactionTimeIsZero ==
    Aggregated =>
        \A e \in DOMAIN body :
            body[e].head.refresh_rate >= 0 => stats[e].reaction_time = 0

\* heads with refresh rates 1.0 and 0.01 were aggregated, the first over
\* Stats that held another reaction time
C18_Witness ==
    /\ Aggregated /\ h.used
    /\ body.player.head.refresh_rate = 1 * Milli
    /\ body.enemy.head.refresh_rate = 10
    /\ stats.player.reaction_time = 0 /\ stats.enemy.reaction_time = 0

\* C19: for the default Body and every generated Body, each BasicMelee
\* entry of the aggregated skill list names Limb::Arm(i) with i below the
\* body's arm count, a limb that has a pose handle, so no step of a
\* BasicMelee skill aborts on the limb lookup.
C19_MeleeLimbExists ==
    /\ \A e \in DOMAIN body :
          \A k \in DOMAIN stats[e].skills :
              stats[e].skills[k].kind = "BasicMelee"
                => /\ stats[e].skills[k].limb[1] = "Arm"
                   /\ stats[e].skills[k].limb[2] < Len(body[e].arms)
    /\ \A k \in DOMAIN stats.player.skills :
          stats.player.skills[k].kind = "BasicMelee"
            => HasLimb(limbs, stats.player.skills[k].limb)
    /\ ~(panicked /\ Active /\ ActiveSkill.kind = "BasicMelee")

\* a step of the generated body's BasicMelee has found its arm and set its
\* pose, facing a generated body whose second arm grants a BasicMelee
C19_Witness ==
    /\ Stepped /\ h.kind = "BasicMelee" /\ ~panicked
    /\ body.player # DefaultBody
    /\ LimbAngle(LastSkill.limb) # 0
    /\ \E k \in DOMAIN stats.enemy.skills :
          /\ stats.enemy.skills[k].kind = "BasicMelee"
          /\ stats.enemy.skills[k].limb = Arm(1)

=============================================================================
